---- MODULE Spec2Model ----
(***************************************************************************)
(* Model of python_backend/app.py: the Flask backend that loads a pickled  *)
(* vectorizer and model at startup and scores interview answers.           *)
(*                                                                         *)
(* Text is modelled by its shape: an answer is `lead` blanks, `n` words of *)
(* `wlen` non-blank characters separated by single blanks, and `trail`     *)
(* blanks.  len(), strip() and split() are computed on that shape.         *)
(* Floating-point values are fixed-point: a double x is the integer        *)
(* x * ProbDen.  Every modelled double is a multiple of 1/ProbDen, for     *)
(* which confidence * 100 is computed without rounding error.              *)
(***************************************************************************)
EXTENDS Integers, Sequences, FiniteSets, TLC

VARIABLES
    runAsMain,       \* __name__ == '__main__'
    vectorizerFile,  \* dataset/tfidf_vectorizer.pkl on disk
    modelFile,       \* dataset/interview_model.pkl on disk
    modelObject,     \* the object serialized in the model file
    pc,              \* "start", "serving" (Flask accepts requests), "exited"
    model,           \* global model
    vectorizer,      \* global vectorizer
    request,         \* the HTTP request in flight
    response,        \* the HTTP response to it
    calls            \* artifact methods invoked while handling it, in order

vars == <<runAsMain, vectorizerFile, modelFile, modelObject, pc, model,
          vectorizer, request, response, calls>>

----------------------------------------------------------------------------
(* Bounds of the model *)

ProbDen == 128        \* probabilities are k / ProbDen, k in 0..ProbDen
MaxLen == 11          \* longest short answer, blanks around it not counted
MaxPad == 1           \* most leading / trailing blanks
OverPred == 2         \* numeric predictions range over -OverPred..100+OverPred

(* Program constants *)

MinAnswerLen == 10
MinScore == 0
MaxScore == 100
Percent == 100
DefaultScore == 50
FallbackScore == 50
ExcellentMin == 80
GoodMin == 60
FairMin == 40
DetailedWords == 100
ShortWords == 50
StatusOK == 200
StatusBadRequest == 400
StatusServerError == 500

----------------------------------------------------------------------------
(* Values *)

None == "None"
Tfidf == "tfidf"
\* A loaded model either exposes predict_proba or it does not.
WithProba == "with_predict_proba"
WithoutProba == "without_predict_proba"
ModelObjects == {WithProba, WithoutProba}

\* A file is missing, holds no loadable object, or holds an object that
\* pickle.load reads, or one that only joblib.load reads.
FileStates == {"missing", "corrupt", "pickle", "joblib"}

Questions == {"", "Q1"}
NoField == "<no question field>"

StrAnswer(l, n, w, t) == [type |-> "str", lead |-> l, n |-> n, wlen |-> w, trail |-> t]

\* Every answer of up to MaxLen characters between its first and last word,
\* and the blank ones (the first of which is the empty string).
ShortAnswers ==
    {a \in {StrAnswer(l, n, w, t) : l \in 0..MaxPad, n \in 1..MaxLen,
                                    w \in 1..MaxLen, t \in 0..MaxPad} :
        a.n * a.wlen + (a.n - 1) <= MaxLen}
    \cup {StrAnswer(l, 0, 1, 0) : l \in 0..(2 * MaxPad)}

\* Answers of one-letter words, around the word counts the feedback tests.
LongAnswers ==
    {StrAnswer(0, n, 1, 0) :
         n \in {ShortWords - 1, ShortWords, DetailedWords - 1, DetailedWords}}

Strings == ShortAnswers \cup LongAnswers

\* JSON values of another type than string: null, false, 0, [] are falsy,
\* a non-zero number, true, a non-empty list or object are truthy.
NonStrings == {[type |-> "other", truthy |-> b] : b \in BOOLEAN}

Absent == [type |-> "absent"]

\* request.get_json(): None, a falsy value ({} [] 0 ""), a truthy value that
\* is no object (a list, a number), or an object.
Bodies ==
    {[kind |-> "none"], [kind |-> "falsy"], [kind |-> "nondict"]}
    \cup {[kind |-> "dict", question |-> q, user_answer |-> a] :
             q \in {NoField} \cup Questions,
             a \in {Absent} \cup NonStrings \cup Strings}

Requests ==
    {[route |-> "/"], [route |-> "/health"]}
    \cup {[route |-> "/evaluate-answer", data |-> d] : d \in Bodies}

NoRequest == [route |-> "none"]
NoResponse == [status |-> 0]

----------------------------------------------------------------------------
(* What the artifacts return *)

Raise == [kind |-> "raise"]
PyInt(v) == [kind |-> "int", v |-> v]          \* a Python int
PyFloat(num) == [kind |-> "float", num |-> num] \* the double num / ProbDen
NaN == [kind |-> "nan"]                        \* float('nan')
Label == [kind |-> "label"]                    \* numpy.int64, numpy.str_

Returned == [kind |-> "ok"]

\* vectorizer.transform([text]) returns a vector or raises.
TransformOutcomes == {Returned, Raise}

\* model.predict(x)[0].  A model without predict_proba returns anything.
\* The prediction of a model with predict_proba is never read, so only
\* whether predict returns or raises is distinguished there.
PredictOutcomes(m) ==
    CASE m = WithProba -> {Label, Raise}
      [] m = WithoutProba ->
            {Label, Raise, NaN}
            \cup {PyInt(v) : v \in (MinScore - OverPred)..(MaxScore + OverPred)}
            \cup {PyFloat(v * ProbDen + ProbDen \div 2) :
                     v \in (MinScore - OverPred)..(MaxScore + OverPred)}
      [] OTHER -> {Raise}

\* max(model.predict_proba(x)[0]): a probability, nan, or an exception.
ProbaOutcomes(m) ==
    CASE m = WithProba -> {Raise, NaN} \cup {PyFloat(k) : k \in 0..ProbDen}
      [] OTHER -> {Raise}

\* What the artifacts do during one request: <<t, p, q>>, the outcomes of
\* transform, predict and predict_proba when they are called.  A call that
\* follows one that raises is never made and is listed as Raise.
ArtifactBehaviours(m) ==
    {<<Raise, Raise, Raise>>, <<Returned, Raise, Raise>>}
    \cup {<<Returned, p, q>> : p \in PredictOutcomes(m) \ {Raise},
                               q \in ProbaOutcomes(m)}

----------------------------------------------------------------------------
(* Python built-ins on the modelled values *)

\* len(s)
StrLen(a) == a.lead + a.trail + (IF a.n = 0 THEN 0 ELSE a.n * a.wlen + (a.n - 1))

\* len(s.strip())
StrippedLen(a) == IF a.n = 0 THEN 0 ELSE a.n * a.wlen + (a.n - 1)

\* len(s.split())
WordCount(a) == a.n

\* bool(x) for a value of a JSON field
Truthy(x) ==
    CASE x.type = "absent" -> FALSE
      [] x.type = "other" -> x.truthy
      [] x.type = "str" -> StrLen(x) > 0

\* Mutant: round(x), to the nearest integer, instead of int(x).
IntOfFloat_rounded(num) ==
    IF num >= 0 THEN (2 * num + ProbDen) \div (2 * ProbDen)
    ELSE -((2 * (-num) + ProbDen) \div (2 * ProbDen))

\* int(x) of the double num / ProbDen: truncation toward zero
IntOfFloat(num) == IF num >= 0 THEN num \div ProbDen ELSE -((-num) \div ProbDen)

Min(a, b) == IF a < b THEN a ELSE b
Max(a, b) == IF a > b THEN a ELSE b

----------------------------------------------------------------------------
(* load_model_and_vectorizer *)

\* pickle.load of the file, then joblib.load when that raised: the object
\* is loaded, or FileNotFoundError or another exception leaves the try.
LoadFile(file) ==
    CASE file = "pickle" -> "loaded"
      [] file = "joblib" -> "loaded"
      [] file = "missing" -> "FileNotFoundError"
      [] file = "corrupt" -> "Exception"

\* The globals after the call and the value it returns.  The vectorizer
\* is assigned before the model file is opened.
load_model_and_vectorizer(vfile, mfile, obj) ==
    IF LoadFile(vfile) # "loaded"
    THEN [ok |-> FALSE, vectorizer |-> None, model |-> None]
    ELSE IF LoadFile(mfile) # "loaded"
         THEN [ok |-> FALSE, vectorizer |-> Tfidf, model |-> None]
         ELSE [ok |-> TRUE, vectorizer |-> Tfidf, model |-> obj]

----------------------------------------------------------------------------
(* generate_feedback *)

Strengths(score, word_count) ==
    (IF score >= ExcellentMin
     THEN <<"Comprehensive and well-structured answer",
            "Demonstrates strong understanding",
            "Clear and articulate communication">>
     ELSE IF score >= GoodMin
          THEN <<"Good understanding of the topic", "Relevant points covered">>
          ELSE IF score >= FairMin
               THEN <<"Basic understanding demonstrated">>
               ELSE <<>>)
    \o (IF word_count >= DetailedWords
        THEN <<"Detailed explanation provided">> ELSE <<>>)

Improvements(score, word_count) ==
    (IF score < ExcellentMin
     THEN (IF word_count < ShortWords
           THEN <<"Provide more detailed explanations">> ELSE <<>>)
          \o <<"Include specific examples to support your points",
               "Elaborate on key concepts">>
     ELSE <<>>)
    \o (IF score < GoodMin
        THEN <<"Address all aspects of the question",
               "Organize your thoughts more clearly">>
        ELSE <<>>)
    \o (IF score < FairMin
        THEN <<"Focus on understanding the core question",
               "Provide more relevant information">>
        ELSE <<>>)

\* Mutant: the first threshold compared with > instead of >=.
Feedback_strict(score) ==
    IF score > ExcellentMin
    THEN "Excellent answer! You demonstrated strong knowledge and communication skills."
    ELSE IF score >= GoodMin
         THEN "Good answer with room for improvement. Consider adding more specific examples and details."
         ELSE IF score >= FairMin
              THEN "Fair answer. Try to provide more comprehensive responses with better structure."
              ELSE "Needs improvement. Focus on understanding the question and providing more relevant details."

Feedback(score) ==
    IF score >= ExcellentMin
    THEN "Excellent answer! You demonstrated strong knowledge and communication skills."
    ELSE IF score >= GoodMin
         THEN "Good answer with room for improvement. Consider adding more specific examples and details."
         ELSE IF score >= FairMin
              THEN "Fair answer. Try to provide more comprehensive responses with better structure."
              ELSE "Needs improvement. Focus on understanding the question and providing more relevant details."

\* Mutant: an answer to an empty question is told so.
generate_feedback_question(score, answer, question) ==
    LET word_count == WordCount(answer)
    IN  [feedback |-> Feedback(score),
         strengths |-> Strengths(score, word_count),
         improvements |-> Improvements(score, word_count)
                          \o (IF question = "" THEN <<"Answer the question asked">>
                              ELSE <<>>)]

generate_feedback(score, answer, question) ==
    LET word_count == WordCount(answer)
    IN  [feedback |-> Feedback(score),
         strengths |-> Strengths(score, word_count),
         improvements |-> Improvements(score, word_count)]

----------------------------------------------------------------------------
(* evaluate_answer *)

TooShortResult ==
    [score |-> 0,
     feedback |-> "Answer is too short. Please provide a more detailed response.",
     strengths |-> <<>>,
     improvements |-> <<"Provide more detailed explanations",
                        "Add relevant examples",
                        "Elaborate on key points">>]

FallbackResult ==
    [score |-> FallbackScore,
     feedback |-> "Unable to evaluate answer accurately. Please try again.",
     strengths |-> <<"Answer provided">>,
     improvements |-> <<"Ensure answer is clear and well-structured">>]

\* Mutant: the length is taken without strip().
TooShort_unstripped(user_answer) ==
    ~Truthy(user_answer) \/ StrLen(user_answer) < MinAnswerLen

\* not user_answer or len(user_answer.strip()) < 10, for a string
TooShort(user_answer) ==
    ~Truthy(user_answer) \/ StrippedLen(user_answer) < MinAnswerLen

\* The score before clamping, or Raise: int() of nan raises ValueError.
\* p is what predict returned, q the maximum of what predict_proba returned.
RawScore(mdl, p, q) ==
    IF mdl = WithProba
    THEN CASE q.kind = "float" -> PyInt(IntOfFloat(q.num * Percent))
           [] OTHER -> Raise
    ELSE CASE p.kind = "int" -> PyInt(p.v)
           [] p.kind = "float" -> PyInt(IntOfFloat(p.num))
           [] p.kind = "nan" -> Raise
           [] OTHER -> PyInt(DefaultScore)

Clamp(score) == Max(MinScore, Min(MaxScore, score))

Call(fn, out) == [fn |-> fn, out |-> out]

\* The artifact calls the try block makes, in order, up to the first that
\* raises.  t, p, q: what transform, predict and predict_proba do when called.
InferenceCalls(mdl, t, p, q) ==
    <<Call("transform", t)>>
    \o (IF t.kind = "raise" THEN <<>>
        ELSE <<Call("predict", p)>>
             \o (IF p.kind = "raise" \/ mdl # WithProba THEN <<>>
                 ELSE <<Call("predict_proba", q)>>))

\* The body of the try block: whether an exception left it, and the
\* result it returned otherwise.
Inference(question, user_answer, mdl, t, p, q) ==
    IF t.kind = "raise" \/ p.kind = "raise"
       \/ RawScore(mdl, p, q).kind = "raise"
    THEN [raised |-> TRUE, result |-> Raise]
    ELSE LET score == Clamp(RawScore(mdl, p, q).v)
             fb == generate_feedback(score, user_answer, question)
         IN  [raised |-> FALSE,
              result |-> [score |-> score,
                          feedback |-> fb.feedback,
                          strengths |-> fb.strengths,
                          improvements |-> fb.improvements]]

\* Mutant: no except clause around the inference.
evaluate_answer_uncaught(question, user_answer, mdl, t, p, q) ==
    IF user_answer.type # "str" /\ Truthy(user_answer)
    THEN [raised |-> TRUE, result |-> Raise, calls |-> <<>>]
    ELSE IF TooShort(user_answer)
         THEN [raised |-> FALSE, result |-> TooShortResult, calls |-> <<>>]
         ELSE LET try == Inference(question, user_answer, mdl, t, p, q)
              IN  [raised |-> try.raised,
                   result |-> try.result,
                   calls |-> InferenceCalls(mdl, t, p, q)]

\* [raised, result, calls]: raised when an exception leaves the function,
\* which happens when user_answer is truthy and has no strip method.
evaluate_answer(question, user_answer, mdl, t, p, q) ==
    IF user_answer.type # "str" /\ Truthy(user_answer)
    THEN [raised |-> TRUE, result |-> Raise, calls |-> <<>>]
    ELSE IF TooShort(user_answer)
         THEN [raised |-> FALSE, result |-> TooShortResult, calls |-> <<>>]
         ELSE LET try == Inference(question, user_answer, mdl, t, p, q)
              IN  [raised |-> FALSE,
                   result |-> IF try.raised THEN FallbackResult ELSE try.result,
                   calls |-> InferenceCalls(mdl, t, p, q)]

----------------------------------------------------------------------------
(* The routes *)

StatusBody(status, mdl, vec) ==
    [status |-> status, model_loaded |-> mdl # None, vectorizer_loaded |-> vec # None]

ModelNotLoadedBody ==
    [error |-> "Model not loaded. Please restart the server.",
     score |-> 0,
     feedback |-> "System error. Please try again later.",
     strengths |-> <<>>,
     improvements |-> <<>>]

InvalidRequestBody ==
    [error |-> "Invalid request. Please provide JSON data.",
     score |-> 0,
     feedback |-> "Invalid request format.",
     strengths |-> <<>>,
     improvements |-> <<>>]

AnswerRequiredBody ==
    [error |-> "user_answer is required",
     score |-> 0,
     feedback |-> "No answer provided.",
     strengths |-> <<>>,
     improvements |-> <<"Provide an answer to the question">>]

\* An exception that leaves a view function: Flask answers 500 with its own
\* error page, which is no JSON of the application.
UnhandledException(calls_made) ==
    [status |-> StatusServerError,
     body |-> [html |-> "Internal Server Error"],
     calls |-> calls_made]

\* data.get(key, '') of the request's JSON object
GetQuestion(data) == IF data.question = NoField THEN "" ELSE data.question
GetUserAnswer(data) ==
    IF data.user_answer.type = "absent" THEN StrAnswer(0, 0, 1, 0) ELSE data.user_answer

\* Mutant: the check of user_answer is left to evaluate_answer.
evaluate_answer_endpoint_response_unchecked(mdl, vec, data, t, p, q) ==
    IF mdl = None \/ vec = None
    THEN [status |-> StatusServerError, body |-> ModelNotLoadedBody, calls |-> <<>>]
    ELSE IF data.kind \in {"none", "falsy"}
    THEN [status |-> StatusBadRequest, body |-> InvalidRequestBody, calls |-> <<>>]
    ELSE IF data.kind = "nondict"
    THEN UnhandledException(<<>>)
    ELSE LET r == evaluate_answer(GetQuestion(data), GetUserAnswer(data), mdl, t, p, q)
         IN  IF r.raised
             THEN UnhandledException(<<Call("evaluate_answer", Raise)>>)
             ELSE [status |-> StatusOK,
                   body |-> r.result,
                   calls |-> <<Call("evaluate_answer", [kind |-> "ok"])>> \o r.calls]

\* [status, body, calls] of POST /evaluate-answer.  A call of evaluate_answer
\* is logged before the artifact calls it makes.
evaluate_answer_endpoint_response(mdl, vec, data, t, p, q) ==
    IF mdl = None \/ vec = None
    THEN [status |-> StatusServerError, body |-> ModelNotLoadedBody, calls |-> <<>>]
    ELSE IF data.kind \in {"none", "falsy"}
    THEN [status |-> StatusBadRequest, body |-> InvalidRequestBody, calls |-> <<>>]
    ELSE IF data.kind = "nondict"
    THEN UnhandledException(<<>>)
    ELSE IF ~Truthy(GetUserAnswer(data))
    THEN [status |-> StatusBadRequest, body |-> AnswerRequiredBody, calls |-> <<>>]
    ELSE LET r == evaluate_answer(GetQuestion(data), GetUserAnswer(data), mdl, t, p, q)
         IN  IF r.raised
             THEN UnhandledException(<<Call("evaluate_answer", Raise)>>)
             ELSE [status |-> StatusOK,
                   body |-> r.result,
                   calls |-> <<Call("evaluate_answer", [kind |-> "ok"])>> \o r.calls]

----------------------------------------------------------------------------
(* Actions *)

Init ==
    /\ runAsMain \in BOOLEAN
    /\ vectorizerFile \in FileStates
    /\ modelFile \in FileStates
    /\ modelObject \in ModelObjects
    /\ pc = "start"
    /\ model = None
    /\ vectorizer = None
    /\ request = NoRequest
    /\ response = NoResponse
    /\ calls = <<>>

\* Mutant: app.run whatever load_model_and_vectorizer returned.
Main_always_runs ==
    /\ pc = "start"
    /\ runAsMain
    /\ LET loaded == load_model_and_vectorizer(vectorizerFile, modelFile, modelObject)
       IN  /\ model' = loaded.model
           /\ vectorizer' = loaded.vectorizer
           /\ pc' = "serving"
    /\ UNCHANGED <<runAsMain, vectorizerFile, modelFile, modelObject,
                   request, response, calls>>

\* python app.py: load the artifacts, then app.run when that succeeded,
\* otherwise print the failure and fall off the end of the script.
Main ==
    /\ pc = "start"
    /\ runAsMain
    /\ LET loaded == load_model_and_vectorizer(vectorizerFile, modelFile, modelObject)
       IN  /\ model' = loaded.model
           /\ vectorizer' = loaded.vectorizer
           /\ pc' = IF loaded.ok THEN "serving" ELSE "exited"
    /\ UNCHANGED <<runAsMain, vectorizerFile, modelFile, modelObject,
                   request, response, calls>>

\* The module is imported by a WSGI host that serves `app`: the block under
\* __name__ == '__main__' is skipped and the globals keep their initial None.
Imported ==
    /\ pc = "start"
    /\ ~runAsMain
    /\ pc' = "serving"
    /\ UNCHANGED <<runAsMain, vectorizerFile, modelFile, modelObject, model,
                   vectorizer, request, response, calls>>

\* A client sends a request; requests are handled one at a time.
SendRequest ==
    /\ pc = "serving"
    /\ request = NoRequest
    /\ \E r \in Requests : request' = r
    /\ UNCHANGED <<runAsMain, vectorizerFile, modelFile, modelObject, pc, model,
                   vectorizer, response, calls>>

Pending(route) ==
    /\ pc = "serving"
    /\ request.route = route
    /\ response = NoResponse

home ==
    /\ Pending("/")
    /\ response' = [status |-> StatusOK,
                    body |-> StatusBody("running", model, vectorizer)]
    /\ UNCHANGED <<runAsMain, vectorizerFile, modelFile, modelObject, pc, model,
                   vectorizer, request, calls>>

health_check ==
    /\ Pending("/health")
    /\ response' = [status |-> StatusOK,
                    body |-> StatusBody("healthy", model, vectorizer)]
    /\ UNCHANGED <<runAsMain, vectorizerFile, modelFile, modelObject, pc, model,
                   vectorizer, request, calls>>

\* Mutant: a request that is not answered 200 drops the model.
evaluate_answer_endpoint_drops_model ==
    /\ Pending("/evaluate-answer")
    /\ \E b \in ArtifactBehaviours(model) :
          LET r == evaluate_answer_endpoint_response(model, vectorizer,
                                                     request.data, b[1], b[2], b[3])
          IN  /\ response' = [status |-> r.status, body |-> r.body]
              /\ calls' = r.calls
              /\ model' = IF r.status = StatusOK THEN model ELSE None
    /\ UNCHANGED <<runAsMain, vectorizerFile, modelFile, modelObject, pc,
                   vectorizer, request>>

evaluate_answer_endpoint ==
    /\ Pending("/evaluate-answer")
    /\ \E b \in ArtifactBehaviours(model) :
          LET r == evaluate_answer_endpoint_response(model, vectorizer,
                                                     request.data, b[1], b[2], b[3])
          IN  /\ response' = [status |-> r.status, body |-> r.body]
              /\ calls' = r.calls
    /\ UNCHANGED <<runAsMain, vectorizerFile, modelFile, modelObject, pc, model,
                   vectorizer, request>>

\* The client reads the response; the next request can be sent.
ReceiveResponse ==
    /\ response # NoResponse
    /\ request' = NoRequest
    /\ response' = NoResponse
    /\ calls' = <<>>
    /\ UNCHANGED <<runAsMain, vectorizerFile, modelFile, modelObject, pc, model,
                   vectorizer>>

Next ==
    \/ Main
    \/ Imported
    \/ SendRequest
    \/ home
    \/ health_check
    \/ evaluate_answer_endpoint
    \/ ReceiveResponse

Spec == Init /\ [][Next]_vars

----------------------------------------------------------------------------
(* Observations on a handled request *)

\* POST /evaluate-answer has been answered and the answer not yet read.
Evaluated == request.route = "/evaluate-answer" /\ response # NoResponse

\* evaluate_answer was called and returned.
CalledEvaluate ==
    /\ Evaluated
    /\ calls # <<>>
    /\ calls[1].fn = "evaluate_answer"
    /\ calls[1].out.kind = "ok"

AnswerOf == GetUserAnswer(request.data)

Invoked(fn) == \E i \in 1..Len(calls) : calls[i].fn = fn

OutcomeOf(fn) ==
    IF Invoked(fn)
    THEN calls[CHOOSE i \in 1..Len(calls) : calls[i].fn = fn].out
    ELSE Raise

\* An artifact call raised, or returned the nan that int() refuses.
InferenceRaised ==
    \E i \in 1..Len(calls) :
        calls[i].fn # "evaluate_answer" /\ calls[i].out.kind \in {"raise", "nan"}

InferenceReturned ==
    CalledEvaluate /\ StrippedLen(AnswerOf) >= 10 /\ ~InferenceRaised

NoArtifactInvoked ==
    ~Invoked("transform") /\ ~Invoked("predict") /\ ~Invoked("predict_proba")

----------------------------------------------------------------------------
(* C1 *)

\* C1: every response of POST /evaluate-answer, the 400 and 500 ones
\* included, carries a score that is an integer in 0..100.
C1_ScoreInRange ==
    Evaluated =>
        /\ "score" \in DOMAIN response.body
        /\ response.body.score \in 0..100

(* C2 *)

TooShortAnswered ==
    /\ response.status = 200
    /\ response.body.score = 0
    /\ response.body.strengths = <<>>
    /\ response.body.improvements = <<"Provide more detailed explanations",
                                      "Add relevant examples",
                                      "Elaborate on key points">>
    /\ NoArtifactInvoked

\* C2 as stated: an answer of trimmed length below 10 gets score 0, no
\* strengths, the three fixed improvements and no artifact call; for one of
\* trimmed length 10 or more the vectorizer and the model are both invoked.
C2_Original ==
    CalledEvaluate =>
        IF StrippedLen(AnswerOf) < 10
        THEN TooShortAnswered
        ELSE Invoked("transform") /\ Invoked("predict")

\* C2 as amended: an answer of trimmed length below 10 gets score 0, no
\* strengths, the three fixed improvements and no artifact call; for one of
\* trimmed length 10 or more vectorizer.transform is invoked first, and
\* model.predict is invoked exactly when transform returned.
C2_ShortAnswerSkipsModel ==
    CalledEvaluate =>
        IF StrippedLen(AnswerOf) < 10
        THEN TooShortAnswered
        ELSE /\ Len(calls) >= 2
             /\ calls[2].fn = "transform"
             /\ Invoked("predict") <=> (calls[2].out.kind = "ok")

\* An answer of 10 characters or more of which fewer than 10 remain after
\* strip() has been scored.
C2_Witness ==
    /\ CalledEvaluate
    /\ StrippedLen(AnswerOf) = 9
    /\ StrLen(AnswerOf) >= 10
    /\ response.body.score = 0

(* C3 *)

ScoreStrengths ==
    SelectSeq(response.body.strengths, LAMBDA x : x # "Detailed explanation provided")

HasImprovement(text) ==
    \E i \in 1..Len(response.body.improvements) : response.body.improvements[i] = text

\* C3: the feedback sentence, the score-based strengths and the
\* improvements of a scored answer are those of the same band, with the
\* bands meeting at 80, 60 and 40.
C3_BandsAgree ==
    InferenceReturned =>
        LET score == response.body.score
            feedback == response.body.feedback
        IN  /\ score \in 0..100
            /\ score >= 80 =>
                 /\ feedback = "Excellent answer! You demonstrated strong knowledge and communication skills."
                 /\ ScoreStrengths = <<"Comprehensive and well-structured answer",
                                       "Demonstrates strong understanding",
                                       "Clear and articulate communication">>
                 /\ response.body.improvements = <<>>
            /\ (60 <= score /\ score <= 79) =>
                 /\ feedback = "Good answer with room for improvement. Consider adding more specific examples and details."
                 /\ ScoreStrengths = <<"Good understanding of the topic",
                                       "Relevant points covered">>
            /\ (40 <= score /\ score <= 59) =>
                 /\ feedback = "Fair answer. Try to provide more comprehensive responses with better structure."
                 /\ ScoreStrengths = <<"Basic understanding demonstrated">>
            /\ score <= 39 =>
                 /\ feedback = "Needs improvement. Focus on understanding the question and providing more relevant details."
                 /\ ScoreStrengths = <<>>
            /\ HasImprovement("Elaborate on key concepts") <=> score <= 79
            /\ HasImprovement("Address all aspects of the question") <=> score <= 59
            /\ HasImprovement("Focus on understanding the core question") <=> score <= 39

\* An answer of a hundred words was scored exactly 80.
C3_Witness ==
    /\ InferenceReturned
    /\ response.body.score = 80
    /\ Len(response.body.strengths) = 4

(* C4 *)

\* C4: with both artifacts loaded, a request without JSON body, with an
\* empty one, or whose user_answer is missing or empty is answered 400 with
\* an error message, and evaluate_answer and the artifacts are not invoked.
C4_MissingAnswerIs400 ==
    (/\ Evaluated
     /\ model # None
     /\ vectorizer # None
     /\ \/ request.data.kind \in {"none", "falsy"}
        \/ /\ request.data.kind = "dict"
           /\ \/ request.data.user_answer.type = "absent"
              \/ /\ request.data.user_answer.type = "str"
                 /\ StrLen(request.data.user_answer) = 0)
    => /\ response.status = 400
       /\ "error" \in DOMAIN response.body
       /\ response.body.error # ""
       /\ calls = <<>>

\* A JSON object without user_answer was refused while the model was loaded.
C4_Witness ==
    /\ Evaluated
    /\ model # None
    /\ vectorizer # None
    /\ request.data.kind = "dict"
    /\ request.data.user_answer.type = "absent"
    /\ response.status = 400

(* C5 *)

LoadFails == LoadFile(vectorizerFile) # "loaded" \/ LoadFile(modelFile) # "loaded"

C6_InferenceFailureFallsBack ==
    (/\ Evaluated
     /\ model # None
     /\ vectorizer # None
     /\ request.data.kind = "dict"
     /\ request.data.user_answer.type = "str"
     /\ StrippedLen(request.data.user_answer) >= 10)
    => /\ response.status = 200
       /\ pc = "serving"
       /\ CalledEvaluate
       /\ InferenceRaised =>
            /\ response.body.score = 50
            /\ response.body.feedback = "Unable to evaluate answer accurately. Please try again."
            /\ response.body.strengths = <<"Answer provided">>
            /\ response.body.improvements = <<"Ensure answer is clear and well-structured">>

\* predict_proba raised and the request was answered with the fallback.
C6_Witness ==
    /\ CalledEvaluate
    /\ Invoked("predict_proba")
    /\ OutcomeOf("predict_proba").kind = "raise"
    /\ response.status = 200
    /\ response.body.score = 50

(* C7 *)

ProbaScored ==
    /\ InferenceReturned
    /\ model = WithProba
    /\ Invoked("predict_proba")
    /\ OutcomeOf("predict_proba").kind = "float"

\* C7 as stated: the score is the maximum class probability times 100
\* rounded to the nearest integer.
C7_Original ==
    ProbaScored =>
        LET num == OutcomeOf("predict_proba").num
            score == response.body.score
        IN  /\ 2 * ProbDen * score - 200 * num <= ProbDen
            /\ 200 * num - 2 * ProbDen * score <= ProbDen

\* C7 as amended: the score is the maximum class probability times 100
\* truncated to an integer: score <= 100 * probability < score + 1.
C7_ScoreTruncates ==
    ProbaScored =>
        LET num == OutcomeOf("predict_proba").num
            score == response.body.score
        IN  /\ ProbDen * score <= 100 * num
            /\ 100 * num < ProbDen * (score + 1)

\* A probability of at least 0.795 was scored 79 and told "Good".
C7_Witness ==
    /\ ProbaScored
    /\ 200 * OutcomeOf("predict_proba").num >= 159 * ProbDen
    /\ response.body.score = 79
    /\ response.body.feedback = "Good answer with room for improvement. Consider adding more specific examples and details."

(* C8 *)

\* C8: the result of a request is the result of the same answer and the
\* same artifact outcomes under every other question, and the feedback,
\* strengths and improvements of a scored answer are those of every answer
\* with the same score and the same number of words.
C8_QuestionUnused ==
    (Evaluated /\ response.status = 200) =>
        /\ \A q2 \in Questions :
              evaluate_answer(q2, AnswerOf, model, OutcomeOf("transform"),
                              OutcomeOf("predict"), OutcomeOf("predict_proba")).result
              = response.body
        /\ InferenceReturned =>
              \A q2 \in Questions :
                \A a2 \in {StrAnswer(l, WordCount(AnswerOf), w, t) :
                              l \in 0..MaxPad, t \in 0..MaxPad,
                              w \in {1, AnswerOf.wlen, MaxLen}} :
                    generate_feedback(response.body.score, a2, q2)
                    = [feedback |-> response.body.feedback,
                       strengths |-> response.body.strengths,
                       improvements |-> response.body.improvements]

\* A scored answer to a question that was not empty.
C8_Witness ==
    /\ InferenceReturned
    /\ request.data.question = "Q1"
    /\ response.body.score = 60

(* C9 *)

\* C9: once the service serves, no step changes the model or the
\* vectorizer, so the flags reported by / and /health never change.
C9_ArtifactsReadOnly ==
    [][pc = "serving" =>
          /\ model' = model
          /\ vectorizer' = vectorizer
          /\ pc' = "serving"]_vars

\* /health reported both artifacts loaded.
C9_Witness ==
    /\ request.route = "/health"
    /\ response # NoResponse
    /\ response.body.model_loaded
    /\ response.body.vectorizer_loaded

(* C10 *)

\* C10: POST /evaluate-answer is answered 500 exactly when the model or the
\* vectorizer is None, and then whatever the request body is.
C10_Original ==
    Evaluated =>
        /\ response.status = 500 <=> (model = None \/ vectorizer = None)
        /\ (model = None \/ vectorizer = None) =>
              response.body.error = "Model not loaded. Please restart the server."

====
